---- MODULE Spec2Model ----
(***************************************************************************)
(* sphinx.pycode.parser: the token cursor (TokenProcessor), the trailing   *)
(* comment scanner (AfterCommentParser), the declaration walker            *)
(* (VariableCommentPicker), the definition locator (DefinitionFinder) and  *)
(* the facade (Parser), as they stand in src/sphinx/pycode/parser.py.      *)
(*                                                                         *)
(* Strings whose characters the code inspects (token values, comments)     *)
(* are sequences of one-character strings; None is the empty tuple and a   *)
(* present optional value v is the one-element tuple <<v>>.                *)
(***************************************************************************)
EXTENDS Integers, Sequences, FiniteSets, TLC

\* ------------------------------------------------------------------ bounds
\* longest statement body (in tokens, before the trailing comment) of a line
MaxLen == 3
\* most top-level statements of an analysed module
MaxStmts == 3

\* ------------------------------------------------------------ token kinds
\* parser.py:12-13 (token / tokenize kind tags, kept as opaque names)
NAME == "NAME"
OP == "OP"
COMMENT == "COMMENT"
NEWLINE == "NEWLINE"
NL == "NL"
ENDMARKER == "ENDMARKER"
\* what next(self.tokens) raises instead of yielding (tokenize.TokenError)
TOKENERROR == "TokenError"

None == << >>
Some(v) == <<v>>

\* Token.__init__ : kind, value, start (line, column)
Token(kind, value, start) == [kind |-> kind, value |-> value, start |-> start]

\* the other operand of Token.__eq__, with the Python type the method tests
IntArg(k) == [v |-> k, type |-> "int"]
StrArg(s) == [v |-> s, type |-> "str"]
PairArg(k, s) == [v |-> <<k, s>>, type |-> "list"]
NoneArg == [v |-> None, type |-> "None"]

\* Token.__eq__ with the list/tuple branch comparing the kind alone
Token_eq_kind(self, other) ==
    CASE other.type = "int" -> self.kind = other.v
      [] other.type = "str" -> self.value = other.v
      [] other.type = "list" -> self.kind = other.v[1]
      [] other.type = "None" -> FALSE
      [] OTHER -> "ValueError"

\* Token.__eq__ : "ValueError" stands for the raise of the last branch
Token_eq(self, other) ==
    CASE other.type = "int" -> self.kind = other.v
      [] other.type = "str" -> self.value = other.v
      [] other.type = "list" -> <<self.kind, self.value>> = other.v
      [] other.type = "None" -> FALSE
      [] OTHER -> "ValueError"

\* ------------------------------------------------------------ source lines
\* the lexemes a statement body is drawn from
Openers == {<<"(">>, <<"[">>, <<"{">>}
Closers == {<<")">>, <<"]">>, <<"}">>}
Words == {<<"x">>}
Ops == {<<"=">>, <<":">>, <<",">>} \cup Openers \cup Closers
Lexemes == Words \cup Ops
\* a comment runs to the end of its line: it can only be a line's last lexeme
DocComment == <<"#", ":", " ", "c", " ">>
PlainComment == <<"#", " ", "c">>
Comments == {DocComment, PlainComment}

BoundedSeq(S, n) == UNION {[1..k -> S] : k \in 0..n}

\* the bodies: any lexemes up to the bound, and `x = ` before any such lexemes
Bodies ==
    BoundedSeq(Lexemes, MaxLen)
        \cup {<<(<<"x">>), (<<"=">>)>> \o rhs : rhs \in BoundedSeq(Lexemes, MaxLen)}

\* the source handed over as `lines`: the body and the optional trailing
\* comment of the first physical line, and the line after it if there is one
Lines == [body : Bodies, comment : {None} \cup {Some(c) : c \in Comments}, next : {None}]

\* the `#:` comment of a second line
DocComment2 == <<"#", ":", " ", "d">>

\* the second lines: a later statement, with or without a `#:` comment
SecondLines ==
    {[body |-> <<(<<"x">>), (<<"=">>), (<<"x">>), (<<",">>)>>, comment |-> Some(DocComment2)],
     [body |-> <<(<<"x">>), (<<"=">>), (<<"x">>)>>, comment |-> Some(DocComment2)],
     [body |-> <<(<<"x">>)>>, comment |-> None]}

\* two physical lines: an assignment `x = ...`, and a later statement
TwoLines ==
    [body : {<<(<<"x">>), (<<"=">>)>> \o rhs : rhs \in BoundedSeq(Lexemes, MaxLen - 1)},
     comment : {None} \cup {Some(c) : c \in Comments},
     next : {Some(l) : l \in SecondLines}]

\* no source
NoLines == [body |-> << >>, comment |-> None, next |-> None]

KindOf(lex) == IF lex \in Words THEN NAME ELSE OP

RECURSIVE ParenLev(_)
\* tokenize counts every opener up and every closer down, whatever its shape
ParenLev(body) ==
    IF body = << >> THEN 0
    ELSE LET rest == ParenLev(SubSeq(body, 1, Len(body) - 1))
             last == body[Len(body)]
         IN  IF last \in Openers THEN rest + 1
             ELSE IF last \in Closers THEN rest - 1
             ELSE rest

\* tokenize.generate_tokens over the one line: the body's tokens, the comment,
\* NL for a blank/comment-only line or inside an open bracket and NEWLINE
\* otherwise, then ENDMARKER, or TokenError at end of input when the bracket
\* count is not zero ("EOF in multi-line statement").
Tokenize(line) ==
    LET n == Len(line.body)
        bodyToks == [i \in 1..n |-> Token(KindOf(line.body[i]), line.body[i], <<1, i>>)]
        comToks == IF line.comment = None THEN << >>
                   ELSE <<Token(COMMENT, line.comment[1], <<1, n + 1>>)>>
        lev == ParenLev(line.body)
        eol == IF n = 0 \/ lev > 0 THEN NL ELSE NEWLINE
        eolTok == Token(eol, <<"\n">>, <<1, n + 2>>)
        eof == IF lev # 0 THEN Token(TOKENERROR, << >>, <<2, 0>>)
               ELSE Token(ENDMARKER, << >>, <<2, 0>>)
    IN  bodyToks \o comToks \o <<eolTok, eof>>

\* tokenize.generate_tokens over one or two lines. The bracket count runs on
\* from the first line into the second; the second line (never blank here)
\* ends in NL inside an open bracket and in NEWLINE otherwise.
TokenizeLines(src) ==
    IF src.next = None THEN Tokenize(src)
    ELSE LET first == Tokenize(src)
             second == src.next[1]
             n == Len(second.body)
             bodyToks == [i \in 1..n |->
                              Token(KindOf(second.body[i]), second.body[i], <<2, i>>)]
             comToks == IF second.comment = None THEN << >>
                        ELSE <<Token(COMMENT, second.comment[1], <<2, n + 1>>)>>
             lev == ParenLev(src.body) + ParenLev(second.body)
             eolTok == Token(IF lev > 0 THEN NL ELSE NEWLINE, <<"\n">>, <<2, n + 2>>)
             eof == IF lev # 0 THEN Token(TOKENERROR, << >>, <<3, 0>>)
                    ELSE Token(ENDMARKER, << >>, <<3, 0>>)
         IN  SubSeq(first, 1, Len(first) - 1) \o bodyToks \o comToks \o <<eolTok, eof>>

\* ------------------------------------------------------------ TokenProcessor
\* the cursor: pos tokens taken from the generator, current and previous
Cursor(pos, current, previous) == [pos |-> pos, current |-> current, previous |-> previous]

\* TokenProcessor.__init__
TokenProcessor_init == Cursor(0, None, None)

\* fetch_token with the StopIteration branch forgetting `self.previous =
\* self.current`
fetch_token_stale(ts, c) ==
    IF c.pos < Len(ts) /\ ts[c.pos + 1].kind = TOKENERROR
    THEN [c |-> Cursor(c.pos + 1, c.current, c.previous), exc |-> TRUE]
    ELSE IF c.pos < Len(ts)
    THEN [c |-> Cursor(c.pos + 1, Some(ts[c.pos + 1]), c.current), exc |-> FALSE]
    ELSE [c |-> Cursor(c.pos, None, c.previous), exc |-> FALSE]

\* TokenProcessor.fetch_token : the cursor after the call and whether the
\* generator raised (an exception other than StopIteration is not caught and
\* leaves current and previous as they were)
fetch_token(ts, c) ==
    IF c.pos < Len(ts) /\ ts[c.pos + 1].kind = TOKENERROR
    THEN [c |-> Cursor(c.pos + 1, c.current, c.previous), exc |-> TRUE]
    ELSE IF c.pos < Len(ts)
    THEN [c |-> Cursor(c.pos + 1, Some(ts[c.pos + 1]), c.current), exc |-> FALSE]
    ELSE [c |-> Cursor(c.pos, None, c.current), exc |-> FALSE]

\* the stop test of fetch_until: a str against the token, membership for a
\* list or tuple (given as the set of its elements), a call for a callable
\* (given by the kinds it accepts); any other condition, such as an int kind
\* tag, matches nothing
Stops(condition, token) ==
    CASE condition.type = "str" -> Token_eq(token, condition)
      [] condition.type = "list" -> \E e \in condition.v : Token_eq(token, e)
      [] condition.type = "callable" -> token.kind \in condition.v
      [] OTHER -> FALSE

CloserOf(value) ==
    CASE value = <<"(">> -> <<")">>
      [] value = <<"[">> -> <<"]">>
      [] value = <<"{">> -> <<"}">>

RECURSIVE fetch_until_flat(_, _, _, _)
\* the loop of fetch_until without the three `tokens.extend(self.fetch_until(
\* closer))` branches: an opening bracket is a token like any other
fetch_until_flat(ts, c, condition, tokens) ==
    LET r == fetch_token(ts, c)
    IN  IF r.exc THEN [c |-> r.c, tokens |-> tokens, exc |-> TRUE]
        ELSE IF r.c.current = None THEN [c |-> r.c, tokens |-> tokens, exc |-> FALSE]
        ELSE IF Stops(condition, r.c.current[1])
        THEN [c |-> r.c, tokens |-> tokens, exc |-> FALSE]
        ELSE fetch_until_flat(ts, r.c, condition, Append(tokens, r.c.current[1]))

RECURSIVE fetch_until_from(_, _, _, _)
\* the loop of fetch_until with `tokens` accumulated so far
fetch_until_from(ts, c, condition, tokens) ==
    LET r == fetch_token(ts, c)
    IN  IF r.exc THEN [c |-> r.c, tokens |-> tokens, exc |-> TRUE]
        ELSE IF r.c.current = None THEN [c |-> r.c, tokens |-> tokens, exc |-> FALSE]
        ELSE LET token == r.c.current[1]
             IN  IF Stops(condition, token)
                 THEN [c |-> r.c, tokens |-> tokens, exc |-> FALSE]
                 ELSE IF token.value \in Openers
                 THEN LET g == fetch_until_from(ts, r.c, StrArg(CloserOf(token.value)), << >>)
                      IN  IF g.exc
                          THEN [c |-> g.c, tokens |-> tokens, exc |-> TRUE]
                          ELSE fetch_until_from(ts, g.c, condition,
                                                Append(tokens, token) \o g.tokens)
                 ELSE fetch_until_from(ts, r.c, condition, Append(tokens, token))

\* TokenProcessor.fetch_until
fetch_until(ts, c, condition) == fetch_until_from(ts, c, condition, << >>)

\* ------------------------------------------------------- AfterCommentParser
\* None as an element of a token list (fetch_rvalue appends what fetch_token
\* returns)
NoToken == Token("None", << >>, <<0, 0>>)

AsElement(current) == IF current = None THEN NoToken ELSE current[1]

RECURSIVE fetch_rvalue_from(_, _, _)
\* the loop of fetch_rvalue with `tokens` accumulated so far
fetch_rvalue_from(ts, c, tokens) ==
    LET r == fetch_token(ts, c)
    IN  IF r.exc THEN [c |-> r.c, tokens |-> tokens, exc |-> TRUE]
        ELSE IF r.c.current = None THEN [c |-> r.c, tokens |-> tokens, exc |-> FALSE]
        ELSE LET token == r.c.current[1]
             IN  IF Token_eq(token, StrArg(<<",">>)) \/ Token_eq(token, StrArg(<<")">>))
                 THEN [c |-> r.c, tokens |-> tokens, exc |-> FALSE]
                 ELSE IF token.value \in Openers
                 THEN LET g == fetch_until(ts, r.c, StrArg(CloserOf(token.value)))
                          k == fetch_token(ts, g.c)
                      IN  IF g.exc THEN [c |-> g.c, tokens |-> tokens, exc |-> TRUE]
                          ELSE IF k.exc THEN [c |-> k.c, tokens |-> tokens, exc |-> TRUE]
                          ELSE fetch_rvalue_from(ts, k.c,
                                   Append(Append(tokens, token) \o g.tokens,
                                          AsElement(k.c.current)))
                 ELSE fetch_rvalue_from(ts, r.c, Append(tokens, token))

\* AfterCommentParser.fetch_rvalue
fetch_rvalue(ts, c) == fetch_rvalue_from(ts, c, << >>)

Whitespace == {" ", "\t", "\n", "\r"}

RECURSIVE lstrip(_)
lstrip(s) == IF s # << >> /\ s[1] \in Whitespace THEN lstrip(Tail(s)) ELSE s

RECURSIVE rstrip(_)
rstrip(s) ==
    IF s # << >> /\ s[Len(s)] \in Whitespace THEN rstrip(SubSeq(s, 1, Len(s) - 1)) ELSE s

\* str.strip()
strip(s) == rstrip(lstrip(s))

\* str.startswith('#:')
StartsWithMarker(s) == Len(s) >= 2 /\ s[1] = "#" /\ s[2] = ":"

RECURSIVE skip_lvalue(_, _)
\* the first loop of AfterCommentParser.parse: found is whether '=' or ':'
\* was met before the stream ended
skip_lvalue(ts, c) ==
    LET r == fetch_token(ts, c)
    IN  IF r.exc THEN [c |-> r.c, found |-> FALSE, exc |-> TRUE]
        ELSE IF r.c.current = None THEN [c |-> r.c, found |-> FALSE, exc |-> FALSE]
        ELSE IF Token_eq(r.c.current[1], StrArg(<<"=">>))
                \/ Token_eq(r.c.current[1], StrArg(<<":">>))
        THEN [c |-> r.c, found |-> TRUE, exc |-> FALSE]
        ELSE skip_lvalue(ts, r.c)

\* AfterCommentParser.parse, from cursor c with self.comment = comment
AfterCommentParser_parse(ts, c, comment) ==
    LET l == skip_lvalue(ts, c)
        rv == fetch_rvalue(ts, l.c)
        t == fetch_token(ts, rv.c)
        rest == fetch_until(ts, t.c, IntArg(NEWLINE))
    IN  IF l.exc \/ ~l.found THEN [c |-> l.c, comment |-> comment, exc |-> l.exc]
        ELSE IF rv.exc \/ rv.tokens = << >>
        THEN [c |-> rv.c, comment |-> comment, exc |-> rv.exc]
        ELSE IF t.exc \/ t.c.current = None
        THEN [c |-> t.c, comment |-> comment, exc |-> t.exc]
        ELSE IF t.c.current[1].kind = COMMENT /\ StartsWithMarker(t.c.current[1].value)
        THEN [c |-> t.c,
              comment |-> Some(strip(SubSeq(t.c.current[1].value, 3,
                                            Len(t.c.current[1].value)))),
              exc |-> FALSE]
        ELSE [c |-> rest.c, comment |-> comment, exc |-> rest.exc]

\* ------------------------------------------------------------ syntax trees
\* an expression node of ast: its class, its id / attr / arg text, its value
\* child (none or one) and its elts children
Expr(type, id, value, elts) == [type |-> type, id |-> id, value |-> value, elts |-> elts]
Name(id) == Expr("Name", id, << >>, << >>)
Attribute(value, attr) == Expr("Attribute", attr, <<value>>, << >>)
Subscript(value) == Expr("Subscript", "", <<value>>, << >>)
Starred(value) == Expr("Starred", "", <<value>>, << >>)
TupleOf(elts) == Expr("Tuple", "", << >>, elts)
Arg(arg) == Expr("arg", arg, << >>, << >>)

\* the `self` arguments get_lvar_names is given: none, or the first argument
\* (an ast.arg) of the enclosing function
SelfArgs == {None, Some(Arg("self"))}

\* the assignment targets the model draws from
Targets ==
    {Name("x"), Attribute(Name("self"), "y"), Attribute(Name("obj"), "y"),
     Subscript(Name("d")), Starred(Name("x")),
     TupleOf(<<Name("x"), Attribute(Name("self"), "y")>>),
     TupleOf(<<Name("x"), Name("z")>>),
     TupleOf(<<Name("x"), Subscript(Name("d"))>>)}

\* a node compared with `self` by ==: ast nodes define no __eq__, so the
\* comparison is object identity, and an expression is never the ast.arg
SameObject(value, self) == self # None /\ value.type = "arg" /\ value = self[1]

RECURSIVE get_lvar_names_sub(_, _)
\* get_lvar_names with a branch that names a subscript target after the
\* object subscripted, instead of raising
get_lvar_names_sub(node, self) ==
    CASE node.type = "Name" -> [names |-> <<node.id>>, exc |-> FALSE]
      [] node.type = "Subscript" -> get_lvar_names_sub(node.value[1], self)
      [] node.type = "Attribute" ->
            IF SameObject(node.value[1], self)
            THEN [names |-> <<node.id>>, exc |-> FALSE]
            ELSE [names |-> << >>, exc |-> TRUE]
      [] node.type \in {"Tuple", "List"} ->
            IF node.elts = << >> THEN [names |-> << >>, exc |-> FALSE]
            ELSE LET head == get_lvar_names_sub(node.elts[1], self)
                     rest == get_lvar_names_sub(
                                 Expr(node.type, "", << >>, Tail(node.elts)), self)
                 IN  IF head.exc \/ rest.exc THEN [names |-> << >>, exc |-> TRUE]
                     ELSE [names |-> head.names \o rest.names, exc |-> FALSE]
      [] OTHER -> [names |-> << >>, exc |-> TRUE]

RECURSIVE get_lvar_names(_, _)
\* get_lvar_names : the names, or exc for the TypeError it raises
get_lvar_names(node, self) ==
    CASE node.type = "Name" -> [names |-> <<node.id>>, exc |-> FALSE]
      [] node.type = "Attribute" ->
            IF SameObject(node.value[1], self)
            THEN [names |-> <<node.id>>, exc |-> FALSE]
            ELSE [names |-> << >>, exc |-> TRUE]
      [] node.type \in {"Tuple", "List"} ->
            IF node.elts = << >> THEN [names |-> << >>, exc |-> FALSE]
            ELSE LET head == get_lvar_names(node.elts[1], self)
                     rest == get_lvar_names(
                                 Expr(node.type, "", << >>, Tail(node.elts)), self)
                 IN  IF head.exc \/ rest.exc THEN [names |-> << >>, exc |-> TRUE]
                     ELSE [names |-> head.names \o rest.names, exc |-> FALSE]
      [] OTHER -> [names |-> << >>, exc |-> TRUE]

\* a statement node of ast, with where it stands in its top-level statement:
\* off is the line offset of its keyword (or first) line, last that of its
\* last line; doc is the documentation comment trailing its line in the source
Stmt(type, name, off, last) ==
    [type |-> type, name |-> name, off |-> off, last |-> last,
     targets |-> << >>, annotation |-> None, hasvalue |-> FALSE, doc |-> None,
     body |-> << >>, handlers |-> << >>, orelse |-> << >>,
     decorated |-> FALSE, args |-> << >>, overload |-> FALSE]

Assign(target, off, doc) ==
    [Stmt("Assign", "", off, off) EXCEPT !.targets = <<target>>, !.hasvalue = TRUE,
                                         !.doc = Some(doc)]

\* import a
ImportA == Stmt("Import", "a", 0, 0)
\* b = 1  #: the comment
AssignB == Assign(Name("b"), 0, "the comment")
\* x: int  #: c
AnnX ==
    [Stmt("AnnAssign", "", 0, 0) EXCEPT !.targets = <<Name("x")>>,
                                        !.annotation = Some("int"), !.doc = Some("c")]
\* d[0] = 'x'  #: s
SubD == Assign(Subscript(Name("d")), 0, "s")
\* try:
\*     p = 1  #: p
\* except E:
\*     h = 1  #: h
\* else:
\*     e = 1  #: e
TryT ==
    [Stmt("Try", "", 0, 5) EXCEPT !.body = <<Assign(Name("p"), 1, "p")>>,
                                  !.handlers = <<Assign(Name("h"), 3, "h")>>,
                                  !.orelse = <<Assign(Name("e"), 5, "e")>>]
\* class C:
\*     @deco
\*     def m(self):
\*         self.y = 1  #: note
MethodM ==
    [Stmt("FunctionDef", "m", 2, 3) EXCEPT
        !.decorated = TRUE, !.args = <<Arg("self")>>,
        !.body = <<Assign(Attribute(Name("self"), "y"), 3, "note")>>]
ClassC == [Stmt("ClassDef", "C", 0, 3) EXCEPT !.body = <<MethodM>>]
\* def f():
\*     pass
FuncF == [Stmt("FunctionDef", "f", 0, 1) EXCEPT !.body = <<Stmt("Pass", "", 1, 1)>>]

\* n = 1
AssignN == [Stmt("Assign", "", 0, 0) EXCEPT !.targets = <<Name("n")>>, !.hasvalue = TRUE]
\* """doc"""        (an expression statement that is a string literal; name is
\*                   the text of the literal)
DocS == Stmt("Expr", "doc", 0, 0)
\* @overload        (overload imported from typing)
\* def g(a): ...
OverG1 ==
    [Stmt("FunctionDef", "g", 1, 1) EXCEPT
        !.decorated = TRUE, !.overload = TRUE, !.args = <<Arg("a")>>]
\* @overload
\* def g(a, b): ...
OverG2 ==
    [Stmt("FunctionDef", "g", 1, 1) EXCEPT
        !.decorated = TRUE, !.overload = TRUE, !.args = <<Arg("a"), Arg("b")>>]

Statements ==
    {ImportA, AssignB, AnnX, SubD, TryT, ClassC, FuncF, AssignN, DocS, OverG1, OverG2}

\* a source unit: its top-level statements, and whether its text is broken so
\* that ast.parse yields no tree for it
Modules == [body : BoundedSeq(Statements, MaxStmts), broken : BOOLEAN]

RECURSIVE LineOf(_, _)
\* the source line (1-based) on which the i-th top-level statement starts
LineOf(body, i) == IF i = 1 THEN 1 ELSE LineOf(body, i - 1) + body[i - 1].last + 1

\* ----------------------------------------------------- VariableCommentPicker
EmptyMap == [k \in {} |-> None]

\* VariableCommentPicker.__init__ (counter is the next value of
\* itertools.count())
VariableCommentPicker_init ==
    [counter |-> 0, context |-> << >>, current_classes |-> << >>,
     current_function |-> None, comments |-> EmptyMap, annotations |-> EmptyMap,
     previous |-> None, deforders |-> EmptyMap, finals |-> << >>,
     overloads |-> EmptyMap, typing |-> None, typing_final |-> None,
     typing_overload |-> None]

\* VariableCommentPicker.visit : the body is `pass`; the NodeVisitor dispatch
\* it overrides is not run
VariableCommentPicker_visit(self, node) == self

\* VariableCommentPicker.get_qualname_for : `pass`, so it returns None
get_qualname_for(self, name) == None

\* VariableCommentPicker.get_self : `pass`, so it returns None whatever
\* current_function is
get_self(self) == None

\* VariableCommentPicker.visit_Import : `pass`
visit_Import(self, node) == self

\* VariableCommentPicker.visit_Assign : `pass`
visit_Assign(self, node) == self

\* VariableCommentPicker.visit_AnnAssign : `pass`
visit_AnnAssign(self, node) == self

\* VariableCommentPicker.visit_Expr : `pass`
visit_Expr(self, node) == self

\* VariableCommentPicker.visit_Try : `pass`
visit_Try(self, node) == self

\* VariableCommentPicker.visit_ClassDef : `pass`
visit_ClassDef(self, node) == self

\* a visit_FunctionDef that pushes the name and binds the function, and
\* returns without the pop and the reset
visit_FunctionDef_entered(self, node) ==
    [self EXCEPT !.context = Append(@, node.name), !.current_function = Some(node)]

\* VariableCommentPicker.visit_FunctionDef : `pass`
visit_FunctionDef(self, node) == self

\* ----------------------------------------------------------- DefinitionFinder
\* DefinitionFinder.__init__
DefinitionFinder_init ==
    [cursor |-> TokenProcessor_init, decorator |-> None, context |-> << >>,
     indents |-> << >>, definitions |-> EmptyMap]

\* DefinitionFinder.parse : `pass`
DefinitionFinder_parse(self) == self

\* DefinitionFinder.add_definition : `pass`
add_definition(self, name, entry) == self

\* DefinitionFinder.finalize_block : `pass`
finalize_block(self) == self

\* ---------------------------------------------------------------------- Parser
\* Parser.__init__ : its first statement calls filter_whitespace, a name the
\* module neither defines nor imports, so the constructor raises NameError
\* before any field is set
Parser_init(code) == [raised |-> Some("NameError"), fields |-> None]

\* Parser.parse : `pass`
Parser_parse(self) == self

\* ------------------------------------------------------------------- state
VARIABLES
    line,       \* the source line handed to the scanner as `lines`
    cur,        \* the scanner's generator position, current and previous
    comment,    \* AfterCommentParser.comment
    raised,     \* whether the last call on the scanner raised
    called,     \* the last call on the scanner and the position it began at
    returned,   \* the token list the last call on the scanner returned
    unit,       \* the source unit handed to the walker, locator and facade
    picker,     \* the VariableCommentPicker's fields
    finder,     \* the DefinitionFinder's fields
    parser,     \* the Parser: None until constructed
    lvars,      \* the last get_lvar_names call: arguments and outcome
    acalled,    \* the last call on walker, locator or facade
    compared,   \* the last Token.__eq__ call: operands and outcome
    fs,         \* the file system: the content of each path, None if absent
    faw,        \* the FileAvoidWrite object: its _path and _io
    fcalled,    \* the last call on the file utilities and its outcome
    duration_data,  \* app.env.duration_data: None while the attribute is unset
    now,        \* the clock time.time() reads
    phase,      \* per document, the last event of the current build
    dcalled,    \* the last event handler of sphinx.ext.duration that ran
    dedented    \* the last dedent_docstring call: argument and outcome

scanvars == <<line, cur, comment, raised, called, returned>>
unitvars == <<unit, picker, finder, parser, lvars, acalled>>
vars == <<line, cur, comment, raised, called, returned,
          unit, picker, finder, parser, lvars, acalled, compared,
          fs, faw, fcalled, duration_data, now, phase, dcalled, dedented>>
filevars == <<fs, faw, fcalled>>
durvars == <<duration_data, now, phase, dcalled>>
auxvars == <<filevars, durvars, dedented>>

\* the objects a specification does not drive stay as they are here
FileIdle == fs = << >> /\ faw = None /\ fcalled = None
DurIdle == duration_data = None /\ now = 0 /\ phase = << >> /\ dcalled = None
DocIdle == dedented = None
EqIdle == compared = None

\* the stop conditions the model passes to fetch_until, by name
ConditionNames == {"str )", "str ,", "list , )", "callable COMMENT", "int NEWLINE"}

ConditionNamed(n) ==
    CASE n = "str )" -> StrArg(<<")">>)
      [] n = "str ," -> StrArg(<<",">>)
      [] n = "list , )" -> [v |-> {StrArg(<<",">>), StrArg(<<")">>)}, type |-> "list"]
      [] n = "callable COMMENT" -> [v |-> {COMMENT}, type |-> "callable"]
      [] n = "int NEWLINE" -> IntArg(NEWLINE)

Call(op, from, cond) == [op |-> op, from |-> from, cond |-> cond]

ScannerInit ==
    /\ cur = TokenProcessor_init
    /\ comment = None
    /\ raised = FALSE
    /\ called = Call("__init__", 0, "")
    /\ returned = << >>

UnitInit ==
    /\ picker = VariableCommentPicker_init
    /\ finder = DefinitionFinder_init
    /\ parser = None
    /\ lvars = None
    /\ acalled = [op |-> "__init__", i |-> 0]

\* AfterCommentParser(lines) on any one line
Init ==
    /\ line \in Lines
    /\ ScannerInit
    /\ unit = [body |-> << >>, broken |-> FALSE]
    /\ UnitInit
    /\ EqIdle
    /\ FileIdle
    /\ DurIdle
    /\ DocIdle

\* The scanner object is driven in one of two ways: by fetch_token calls alone,
\* or by one call of fetch_until, fetch_rvalue or parse on the fresh object.
Fresh == called.op = "__init__"

\* self.fetch_token()
FetchToken ==
    LET r == fetch_token(TokenizeLines(line), cur)
    IN  /\ called.op \in {"__init__", "fetch_token"}
        /\ cur' = r.c
        /\ raised' = r.exc
        /\ returned' = IF r.exc THEN << >> ELSE r.c.current
        /\ called' = Call("fetch_token", cur.pos, "")
        /\ UNCHANGED <<line, comment, unitvars, compared, auxvars>>

\* self.fetch_until(condition)
FetchUntil ==
    \E n \in ConditionNames :
        LET r == fetch_until(TokenizeLines(line), cur, ConditionNamed(n))
        IN  /\ Fresh
            /\ cur' = r.c
            /\ raised' = r.exc
            /\ returned' = IF r.exc THEN << >> ELSE r.tokens
            /\ called' = Call("fetch_until", cur.pos, n)
            /\ UNCHANGED <<line, comment, unitvars, compared, auxvars>>

\* self.fetch_rvalue()
FetchRvalue ==
    LET r == fetch_rvalue(TokenizeLines(line), cur)
    IN  /\ Fresh
        /\ cur' = r.c
        /\ raised' = r.exc
        /\ returned' = IF r.exc THEN << >> ELSE r.tokens
        /\ called' = Call("fetch_rvalue", cur.pos, "")
        /\ UNCHANGED <<line, comment, unitvars, compared, auxvars>>

\* self.parse()
Parse ==
    LET r == AfterCommentParser_parse(TokenizeLines(line), cur, comment)
    IN  /\ Fresh
        /\ cur' = r.c
        /\ comment' = r.comment
        /\ raised' = r.exc
        /\ returned' = << >>
        /\ called' = Call("parse", cur.pos, "")
        /\ UNCHANGED <<line, unitvars, compared, auxvars>>

Next == FetchToken \/ FetchUntil \/ FetchRvalue \/ Parse

Spec == Init /\ [][Next]_vars

\* AfterCommentParser(lines) on an assignment followed by a later statement
LinesInit ==
    /\ line \in TwoLines
    /\ ScannerInit
    /\ unit = [body |-> << >>, broken |-> FALSE]
    /\ UnitInit
    /\ EqIdle
    /\ FileIdle
    /\ DurIdle
    /\ DocIdle

LinesSpec == LinesInit /\ [][Next]_vars

\* ------------------------------------------------- walker, locator, facade
\* the three analysis objects over any one source unit; get_lvar_names, a
\* module-level function, is exercised on its own
UnitSpecInit ==
    /\ unit \in Modules
    /\ UnitInit
    /\ line = NoLines
    /\ ScannerInit
    /\ EqIdle
    /\ FileIdle
    /\ DurIdle
    /\ DocIdle

ACall(op, i) == [op |-> op, i |-> i]

\* picker.visit(tree), the tree being what ast.parse made of the unit
Visit ==
    /\ lvars = None
    /\ ~unit.broken
    /\ picker' = VariableCommentPicker_visit(picker, unit.body)
    /\ acalled' = ACall("visit", 0)
    /\ UNCHANGED <<scanvars, compared, auxvars, unit, finder, parser, lvars>>

\* picker.visit_Import(node)
VisitImport ==
    \E i \in 1..Len(unit.body) :
        /\ lvars = None
        /\ ~unit.broken
        /\ unit.body[i].type = "Import"
        /\ picker' = visit_Import(picker, unit.body[i])
        /\ acalled' = ACall("visit_Import", i)
        /\ UNCHANGED <<scanvars, compared, auxvars, unit, finder, parser, lvars>>

\* picker.visit_Assign(node)
VisitAssign ==
    \E i \in 1..Len(unit.body) :
        /\ lvars = None
        /\ ~unit.broken
        /\ unit.body[i].type = "Assign"
        /\ picker' = visit_Assign(picker, unit.body[i])
        /\ acalled' = ACall("visit_Assign", i)
        /\ UNCHANGED <<scanvars, compared, auxvars, unit, finder, parser, lvars>>

\* picker.visit_AnnAssign(node)
VisitAnnAssign ==
    \E i \in 1..Len(unit.body) :
        /\ lvars = None
        /\ ~unit.broken
        /\ unit.body[i].type = "AnnAssign"
        /\ picker' = visit_AnnAssign(picker, unit.body[i])
        /\ acalled' = ACall("visit_AnnAssign", i)
        /\ UNCHANGED <<scanvars, compared, auxvars, unit, finder, parser, lvars>>

\* picker.visit_Try(node)
VisitTry ==
    \E i \in 1..Len(unit.body) :
        /\ lvars = None
        /\ ~unit.broken
        /\ unit.body[i].type = "Try"
        /\ picker' = visit_Try(picker, unit.body[i])
        /\ acalled' = ACall("visit_Try", i)
        /\ UNCHANGED <<scanvars, compared, auxvars, unit, finder, parser, lvars>>

\* picker.visit_Expr(node)
VisitExpr ==
    \E i \in 1..Len(unit.body) :
        /\ lvars = None
        /\ ~unit.broken
        /\ unit.body[i].type = "Expr"
        /\ picker' = visit_Expr(picker, unit.body[i])
        /\ acalled' = ACall("visit_Expr", i)
        /\ UNCHANGED <<scanvars, compared, auxvars, unit, finder, parser, lvars>>

\* picker.visit_ClassDef(node)
VisitClassDef ==
    \E i \in 1..Len(unit.body) :
        /\ lvars = None
        /\ ~unit.broken
        /\ unit.body[i].type = "ClassDef"
        /\ picker' = visit_ClassDef(picker, unit.body[i])
        /\ acalled' = ACall("visit_ClassDef", i)
        /\ UNCHANGED <<scanvars, compared, auxvars, unit, finder, parser, lvars>>

\* picker.visit_FunctionDef(node)
VisitFunctionDef ==
    \E i \in 1..Len(unit.body) :
        /\ lvars = None
        /\ ~unit.broken
        /\ unit.body[i].type = "FunctionDef"
        /\ picker' = visit_FunctionDef(picker, unit.body[i])
        /\ acalled' = ACall("visit_FunctionDef", i)
        /\ UNCHANGED <<scanvars, compared, auxvars, unit, finder, parser, lvars>>

\* get_lvar_names(node, self) on any target
GetLvarNames ==
    \E node \in Targets, self \in SelfArgs :
        LET r == get_lvar_names(node, self)
        IN  /\ acalled.op \in {"__init__", "get_lvar_names"}
            /\ lvars' = Some([node |-> node, self |-> self,
                              names |-> r.names, exc |-> r.exc])
            /\ acalled' = ACall("get_lvar_names", 0)
            /\ UNCHANGED <<scanvars, compared, auxvars, unit, picker, finder, parser>>

\* DefinitionFinder(lines).parse()
FinderParse ==
    /\ lvars = None
    /\ finder' = DefinitionFinder_parse(finder)
    /\ acalled' = ACall("DefinitionFinder.parse", 0)
    /\ UNCHANGED <<scanvars, compared, auxvars, unit, picker, parser, lvars>>

\* finder.finalize_block()
FinalizeBlock ==
    /\ lvars = None
    /\ finder' = finalize_block(finder)
    /\ acalled' = ACall("DefinitionFinder.finalize_block", 0)
    /\ UNCHANGED <<scanvars, compared, auxvars, unit, picker, parser, lvars>>

\* Parser(code) followed, if the constructor returns, by .parse()
ParserParse ==
    LET p == Parser_init(unit)
    IN  /\ lvars = None
        /\ parser' = IF p.raised # None THEN Some(p) ELSE Some(Parser_parse(p))
        /\ acalled' = ACall("Parser.parse", 0)
        /\ UNCHANGED <<scanvars, compared, auxvars, unit, picker, finder, lvars>>

UnitNext ==
    \/ Visit \/ VisitImport \/ VisitAssign \/ VisitAnnAssign \/ VisitTry
    \/ VisitExpr \/ VisitClassDef \/ VisitFunctionDef
    \/ GetLvarNames \/ FinderParse \/ FinalizeBlock \/ ParserParse

UnitSpec == UnitSpecInit /\ [][UnitNext]_vars

\* ------------------------------------------------------- token comparison
\* the tokens compared: every kind and text of the streams above, at several
\* (line, column) positions
TokenKinds == {NAME, OP, COMMENT, NEWLINE}
TokenValues == {<<"x">>, <<"=">>, <<"(">>, <<"\n">>, PlainComment}
TokenStarts == {<<1, 0>>, <<1, 4>>, <<2, 0>>}
Tokens == {Token(k, v, st) : k \in TokenKinds, v \in TokenValues, st \in TokenStarts}

\* an operand of a type Token.__eq__ has no branch for
FloatArg == [v |-> None, type |-> "float"]

EqInit ==
    /\ line = NoLines
    /\ ScannerInit
    /\ unit = [body |-> << >>, broken |-> FALSE]
    /\ UnitInit
    /\ EqIdle
    /\ FileIdle
    /\ DurIdle
    /\ DocIdle

\* token == other
Compare(self, other) ==
    LET exc == other.type \notin {"int", "str", "list", "None"}
    IN  /\ compared = None
        /\ compared' = Some([self |-> self, other |-> other, exc |-> exc,
                             result |-> IF exc THEN FALSE ELSE Token_eq(self, other)])
        /\ UNCHANGED <<scanvars, unitvars, auxvars>>

\* a comparison of any token with an operand of each type Token.__eq__ tells
\* apart
TokenEq ==
    \E self \in Tokens :
        \/ \E k \in TokenKinds : Compare(self, IntArg(k))
        \/ \E v \in TokenValues : Compare(self, StrArg(v))
        \/ \E k \in TokenKinds, v \in TokenValues : Compare(self, PairArg(k, v))
        \/ Compare(self, NoneArg)
        \/ Compare(self, FloatArg)

EqNext == TokenEq

EqSpec == EqInit /\ [][EqNext]_vars

\* --------------------------------------------------------- sphinx.util.osutil
\* the paths and file contents of the model (a content is a sequence of
\* characters)
Paths == {"a", "b"}
Contents == {<<"x">>, <<"y">>}
FileSystems == [Paths -> {None} \cup {Some(c) : c \in Contents}]

\* os.path.exists / Path.exists
exists(files, p) == files[p] # None

\* FileAvoidWrite.__init__
FileAvoidWrite_init(path) == [path |-> path, io |-> None]

\* FileAvoidWrite.__getattr__ : raises Exception while _io is unset, else
\* hands out the attribute of the StringIO
FileAvoidWrite_getattr(self, name) ==
    IF self.io = None THEN [attr |-> None, exc |-> Some("Exception")]
    ELSE [attr |-> Some(name), exc |-> None]

\* obj.write(data): the class defines no write method, so the attribute is
\* looked up through __getattr__, and the StringIO's write appends to the
\* buffer
FileAvoidWrite_write(self, data) ==
    LET a == FileAvoidWrite_getattr(self, "write")
    IN  IF a.exc # None THEN [self |-> self, exc |-> a.exc]
        ELSE [self |-> [self EXCEPT !.io = Some(@[1] \o data)], exc |-> None]

\* FileAvoidWrite.close : the object and the file system after the call, and
\* whether the file was opened for writing
FileAvoidWrite_close(self, files) ==
    IF self.io = None THEN [self |-> self, files |-> files, wrote |-> FALSE]
    ELSE LET content == self.io[1]
             closed == [self EXCEPT !.io = None]
         IN  IF exists(files, self.path) /\ files[self.path] = Some(content)
             THEN [self |-> closed, files |-> files, wrote |-> FALSE]
             ELSE [self |-> closed,
                   files |-> [files EXCEPT ![self.path] = Some(content)],
                   wrote |-> TRUE]

\* copyfile : Path.samefile stats both paths, so it raises FileNotFoundError
\* when dest does not exist; two paths are the same file when they are equal
copyfile(files, source, dest, force) ==
    IF ~exists(files, source)
    THEN [files |-> files, exc |-> Some("FileNotFoundError")]
    ELSE IF ~exists(files, dest)
    THEN [files |-> files, exc |-> Some("FileNotFoundError")]
    ELSE IF source = dest
    THEN [files |-> files, exc |-> None]
    ELSE IF exists(files, dest) /\ ~force
    THEN [files |-> files, exc |-> None]
    ELSE [files |-> [files EXCEPT ![dest] = files[source]], exc |-> None]

FCall(op, source, dest, force, data, exc, wrote) ==
    [op |-> op, source |-> source, dest |-> dest, force |-> force, data |-> data,
     exc |-> exc, wrote |-> wrote]

\* any files, and FileAvoidWrite(path) for any path
FileInit ==
    /\ fs \in FileSystems
    /\ faw \in {FileAvoidWrite_init(p) : p \in Paths}
    /\ fcalled = FCall("__init__", "", "", FALSE, << >>, None, FALSE)
    /\ line = NoLines
    /\ ScannerInit
    /\ unit = [body |-> << >>, broken |-> FALSE]
    /\ UnitInit
    /\ EqIdle
    /\ DurIdle
    /\ DocIdle

\* obj.write(data)
Write ==
    \E data \in Contents :
        LET r == FileAvoidWrite_write(faw, data)
        IN  /\ faw' = r.self
            /\ fcalled' = FCall("write", "", "", FALSE, data, r.exc, FALSE)
            /\ UNCHANGED <<scanvars, unitvars, compared, fs, durvars, dedented>>

\* obj.close()
Close ==
    LET r == FileAvoidWrite_close(faw, fs)
    IN  /\ faw' = r.self
        /\ fs' = r.files
        /\ fcalled' = FCall("close", "", "", FALSE, << >>, None, r.wrote)
        /\ UNCHANGED <<scanvars, unitvars, compared, durvars, dedented>>

\* copyfile(source, dest, force=force)
Copyfile ==
    \E source \in Paths, dest \in Paths, force \in BOOLEAN :
        LET r == copyfile(fs, source, dest, force)
        IN  /\ fs' = r.files
            /\ fcalled' = FCall("copyfile", source, dest, force, << >>, r.exc,
                                r.exc = None /\ r.files # fs)
            /\ UNCHANGED <<scanvars, unitvars, compared, faw, durvars, dedented>>

FileNext == Write \/ Close \/ Copyfile

FileSpec == FileInit /\ [][FileNext]_vars

\* ------------------------------------------------ sphinx/ext/duration.py
\* app.env.duration_data is None while the attribute is unset, else
\* Some([reading_durations |-> the dict]); the dict gives each document
\* None (no key) or Some(number). time.time() is counted in whole ticks.
Docs == {"a", "b"}
MaxTime == 4

\* the dict with no key
EmptyDurations == [d \in Docs |-> None]

\* on_builder_inited(app)
on_builder_inited(data) == Some([reading_durations |-> EmptyDurations])

\* on_source_read(app, docname, content), time.time() = t
on_source_read(data, docname, t) ==
    Some([reading_durations |->
              [data[1].reading_durations EXCEPT ![docname] = Some(t)]])

on_doctree_read_raw(data, docname, t) == data

\* on_doctree_read(app, doctree), app.env.docname = docname, time.time() = t
on_doctree_read(data, docname, t) ==
    LET start_time == data[1].reading_durations[docname]
    IN  IF start_time # None /\ start_time[1] # 0
        THEN Some([reading_durations |->
                       [data[1].reading_durations
                            EXCEPT ![docname] = Some(t - start_time[1])]])
        ELSE data

DCall(op, docname, at) == [op |-> op, docname |-> docname, at |-> at]

\* what the current build has seen of a document
Phase(ev, start, end) == [ev |-> ev, start |-> start, end |-> end]

\* a new process: the environment is fresh, or it was loaded with the
\* durations a previous build left in it; the clock is past the epoch
DurInit ==
    /\ duration_data \in
           {None} \cup {Some([reading_durations |-> f]) :
                            f \in [Docs -> {None, Some(0), Some(1)}]}
    /\ now = 1
    /\ phase = [d \in Docs |-> Phase("unbuilt", 0, 0)]
    /\ dcalled = DCall("none", "", 0)
    /\ line = NoLines
    /\ ScannerInit
    /\ unit = [body |-> << >>, broken |-> FALSE]
    /\ UnitInit
    /\ EqIdle
    /\ FileIdle
    /\ DocIdle

\* the event builder-inited: a build begins
BuilderInited ==
    /\ duration_data' = on_builder_inited(duration_data)
    /\ phase' = [d \in Docs |-> Phase("none", 0, 0)]
    /\ dcalled' = DCall("builder-inited", "", now)
    /\ UNCHANGED <<scanvars, unitvars, compared, filevars, now, dedented>>

\* the event source-read for document d; events of a build come after its
\* builder-inited
SourceRead(d) ==
    /\ phase[d].ev # "unbuilt"
    /\ duration_data' = on_source_read(duration_data, d, now)
    /\ phase' = [phase EXCEPT ![d] = Phase("source-read", now, 0)]
    /\ dcalled' = DCall("source-read", d, now)
    /\ UNCHANGED <<scanvars, unitvars, compared, filevars, now, dedented>>

\* the event doctree-read while app.env.docname is d
DoctreeRead(d) ==
    /\ phase[d].ev # "unbuilt"
    /\ duration_data' = on_doctree_read(duration_data, d, now)
    /\ phase' = [phase EXCEPT ![d] =
                     IF phase[d].ev = "source-read"
                     THEN Phase("doctree-read", phase[d].start, now)
                     ELSE IF phase[d].ev = "none" THEN phase[d]
                     ELSE Phase("again", 0, 0)]
    /\ dcalled' = DCall("doctree-read", d, now)
    /\ UNCHANGED <<scanvars, unitvars, compared, filevars, now, dedented>>

\* time passes
Tick ==
    /\ now < MaxTime
    /\ now' = now + 1
    /\ UNCHANGED <<scanvars, unitvars, compared, filevars,
                   duration_data, phase, dcalled, dedented>>

DurNext ==
    \/ BuilderInited
    \/ \E d \in Docs : SourceRead(d)
    \/ \E d \in Docs : DoctreeRead(d)
    \/ Tick

DurSpec == DurInit /\ [][DurNext]_vars

\* ------------------------------------------------------- dedent_docstring
\* a string is the sequence of its characters
DocChars == {" ", "a", "\n", "\t"}
MaxDoc == 4
LineBreaks == {"\n", "\r"}

RECURSIVE expandtabs_from(_, _)
\* str.expandtabs() from column col: a tab fills up to the next multiple of 8
expandtabs_from(s, col) ==
    IF s = << >> THEN << >>
    ELSE IF s[1] = "\t"
         THEN [i \in 1..(8 - (col % 8)) |-> " "] \o expandtabs_from(Tail(s), 0)
         ELSE IF s[1] \in LineBreaks
              THEN <<s[1]>> \o expandtabs_from(Tail(s), 0)
              ELSE <<s[1]>> \o expandtabs_from(Tail(s), col + 1)

expandtabs(s) == expandtabs_from(s, 0)

RECURSIVE splitlines_from(_, _, _)
\* str.splitlines(): the lines without their breaks; `\r\n` is one break, and
\* a break at the very end opens no further line
splitlines_from(s, current, acc) ==
    IF s = << >> THEN (IF current = << >> THEN acc ELSE Append(acc, current))
    ELSE IF s[1] \in LineBreaks
         THEN IF s[1] = "\r" /\ Len(s) >= 2 /\ s[2] = "\n"
              THEN splitlines_from(Tail(Tail(s)), << >>, Append(acc, current))
              ELSE splitlines_from(Tail(s), << >>, Append(acc, current))
         ELSE splitlines_from(Tail(s), Append(current, s[1]), acc)

splitlines(s) == splitlines_from(s, << >>, << >>)

RECURSIVE pop_blank_end(_)
\* while result and not result[-1]: result.pop()
pop_blank_end(result) ==
    IF result # << >> /\ result[Len(result)] = << >>
    THEN pop_blank_end(SubSeq(result, 1, Len(result) - 1))
    ELSE result

RECURSIVE pop_blank_start(_)
\* while result and not result[0]: result.pop(0)
pop_blank_start(result) ==
    IF result # << >> /\ result[1] = << >> THEN pop_blank_start(Tail(result))
    ELSE result

RECURSIVE join(_, _)
\* sep.join(parts)
join(sep, parts) ==
    IF parts = << >> THEN << >>
    ELSE IF Len(parts) = 1 THEN parts[1]
    ELSE parts[1] \o sep \o join(sep, Tail(parts))

\* dedent_docstring(s) : the result, or exc for the error it raises
dedent_docstring(s) ==
    IF s = << >> THEN [result |-> s, exc |-> None]
    ELSE LET lines == splitlines(expandtabs(s))
             margins == {Len(lines[i]) - Len(lstrip(lines[i])) :
                             i \in {j \in 2..Len(lines) : strip(lines[j]) # << >>}}
         IN  IF margins = {} THEN [result |-> << >>, exc |-> Some("ValueError")]
             ELSE LET m == CHOOSE x \in margins : \A y \in margins : x <= y
                      indent == IF m < 0 THEN 0 ELSE m
                      result == <<strip(lines[1])>> \o
                                    [i \in 1..(Len(lines) - 1) |->
                                         rstrip(SubSeq(lines[i + 1], indent + 1,
                                                       Len(lines[i + 1])))]
                  IN  [result |-> join(<<"\n">>, pop_blank_start(pop_blank_end(result))),
                       exc |-> None]

DocCall(s, result, exc, done) == [s |-> s, result |-> result, exc |-> exc, done |-> done]

\* any string up to the bound, not yet passed to dedent_docstring
DocInit ==
    /\ dedented \in {DocCall(s, << >>, None, FALSE) : s \in BoundedSeq(DocChars, MaxDoc)}
    /\ line = NoLines
    /\ ScannerInit
    /\ unit = [body |-> << >>, broken |-> FALSE]
    /\ UnitInit
    /\ EqIdle
    /\ FileIdle
    /\ DurIdle

\* dedent_docstring(s)
Dedent ==
    /\ ~dedented.done
    /\ LET r == dedent_docstring(dedented.s)
       IN  dedented' = DocCall(dedented.s, r.result, r.exc, TRUE)
    /\ UNCHANGED <<scanvars, unitvars, compared, filevars, durvars>>

DocNext == Dedent

DocSpec == DocInit /\ [][DocNext]_vars

\* ------------------------------------------------------------------ claims
\* `x = ` followed by a right-hand side
IsAssignment(l) == Len(l.body) >= 3 /\ l.body[1] = <<"x">> /\ l.body[2] = <<"=">>
Rhs(l) == SubSeq(l.body, 3, Len(l.body))
HasDoc(l) == l.comment = Some(DocComment)
\* DocComment without its marker and the whitespace around it
DocText == <<"c">>

RECURSIVE WellNested(_, _)
\* every bracket of seq closes the innermost open one, none stays open, and
\* outside all brackets there are only names; stack holds the awaited closers
WellNested(seq, stack) ==
    IF seq = << >> THEN stack = << >>
    ELSE IF seq[1] \in Openers
    THEN WellNested(Tail(seq), <<CloserOf(seq[1])>> \o stack)
    ELSE IF seq[1] \in Closers
    THEN stack # << >> /\ stack[1] = seq[1] /\ WellNested(Tail(seq), Tail(stack))
    ELSE (seq[1] \in Words \/ stack # << >>) /\ WellNested(Tail(seq), stack)

\* a right-hand side that ends in a bracket group
GroupedRhs(rhs) ==
    /\ rhs # << >>
    /\ WellNested(rhs, << >>)
    /\ rhs[Len(rhs)] \in Closers

ParsedFresh == called.op = "parse" /\ called.from = 0

\* C1: for an assignment to a plain name whose right-hand side is followed on
\* the same line by a `#:` comment, parse() leaves in self.comment the comment
\* text without the marker and the surrounding whitespace.
C1_PlainAssignmentComment ==
    (ParsedFresh /\ IsAssignment(line) /\ Rhs(line) = <<(<<"x">>)>> /\ HasDoc(line))
        => (~raised /\ comment = Some(DocText))

\* C2: for an assignment whose right-hand side holds balanced bracket groups
\* and is followed by a `#:` comment, parse() still returns that comment.
C2_BracketedRhsComment ==
    (ParsedFresh /\ IsAssignment(line) /\ GroupedRhs(Rhs(line)) /\ HasDoc(line))
        => (~raised /\ comment = Some(DocText))

Walked == acalled.op = "visit"
Located == acalled.op = "DefinitionFinder.parse" /\ ~unit.broken
Positions == 1..Len(unit.body)
Occurs(stmt) == \E i \in Positions : unit.body[i] = stmt
OccursOnceAt(stmt, i) ==
    /\ i \in Positions
    /\ unit.body[i] = stmt
    /\ \A k \in Positions : unit.body[k] = stmt => k = i

\* C3: after the walk of a unit holding `x: int  #: c`, no comment is recorded
\* for x and annotations[("", "x")] is the annotation text "int".
C3_AnnotationOnly ==
    (Walked /\ Occurs(AnnX))
        => /\ <<"", "x">> \notin DOMAIN picker.comments
           /\ <<"", "x">> \in DOMAIN picker.annotations
           /\ picker.annotations[<<"", "x">>] = "int"

\* C4: after the walk of a unit holding `d[0] = 'x'  #: s` and, later,
\* `b = 1  #: the comment`, nothing is recorded for the subscript assignment
\* and the later statement is recorded as usual.
C4_NonPlainTargetSkipped ==
    (Walked /\ \E i, j \in Positions : i < j /\ unit.body[i] = SubD /\ unit.body[j] = AssignB)
        => /\ <<"", "d">> \notin DOMAIN picker.comments
           /\ <<"", "b">> \in DOMAIN picker.comments
           /\ picker.comments[<<"", "b">>] = "the comment"

\* the name a top-level statement defines, "" if none
DefName(stmt) ==
    CASE stmt.type \in {"Import", "ClassDef", "FunctionDef"} -> stmt.name
      [] stmt.type \in {"Assign", "AnnAssign"} /\ stmt.targets[1].type = "Name" ->
            stmt.targets[1].id
      [] OTHER -> ""

FirstAt(name, i) ==
    /\ name # ""
    /\ DefName(unit.body[i]) = name
    /\ \A k \in 1..(i - 1) : DefName(unit.body[k]) # name

\* C5: after the walk, every name has an order number, and a name first met
\* earlier in the source has a smaller number than a name first met later
\* (imports included).
C5_OrderFollowsSource ==
    Walked =>
        \A i, j \in Positions :
            (i < j /\ FirstAt(DefName(unit.body[i]), i) /\ FirstAt(DefName(unit.body[j]), j))
                => /\ DefName(unit.body[i]) \in DOMAIN picker.deforders
                   /\ DefName(unit.body[j]) \in DOMAIN picker.deforders
                   /\ picker.deforders[DefName(unit.body[i])]
                        < picker.deforders[DefName(unit.body[j])]

\* C6: after DefinitionFinder.parse() on a unit holding class C with its
\* method m, both have a span in definitions, each span ends no earlier than
\* it starts, and the span of C.m lies inside the span of C.
C6_SpanContainment ==
    (Located /\ Occurs(ClassC))
        => LET d == finder.definitions
           IN  /\ "C" \in DOMAIN d
               /\ "C.m" \in DOMAIN d
               /\ d["C"][2] <= d["C"][3]
               /\ d["C.m"][2] <= d["C.m"][3]
               /\ d["C"][2] <= d["C.m"][2]
               /\ d["C.m"][3] <= d["C"][3]

\* C8: after DefinitionFinder.parse(), the decorated method C.m starts at its
\* decorator's line, the decorator has no entry of its own, and the later,
\* undecorated function f starts at its own `def` line.
C8_DecoratorStartLine ==
    Located =>
        \A i, j \in Positions :
            (i < j /\ OccursOnceAt(ClassC, i) /\ OccursOnceAt(FuncF, j))
                => LET d == finder.definitions
                   IN  /\ "C.m" \in DOMAIN d
                       /\ d["C.m"][2] = LineOf(unit.body, i) + MethodM.off - 1
                       /\ "deco" \notin DOMAIN d
                       /\ "f" \in DOMAIN d
                       /\ d["f"][2] = LineOf(unit.body, j)

\* C9: after the walk of a unit holding the try statement, the name assigned
\* in the handler body has no entry, and the names assigned in the protected
\* body and in the else clause are recorded with their comments.
C9_HandlerBodySkipped ==
    (Walked /\ Occurs(TryT))
        => /\ <<"", "h">> \notin DOMAIN picker.comments
           /\ <<"", "p">> \in DOMAIN picker.comments
           /\ picker.comments[<<"", "p">>] = "p"
           /\ <<"", "e">> \in DOMAIN picker.comments
           /\ picker.comments[<<"", "e">>] = "e"

\* C10: analysing a unit whose text cannot be parsed raises nothing to the
\* caller and ends with every result map empty.
C10_UnparseableDegrades ==
    (acalled.op = "Parser.parse" /\ unit.broken)
        => /\ parser # None
           /\ parser[1].raised = None
           /\ parser[1].fields # None
           /\ parser[1].fields[1].comments = EmptyMap
           /\ parser[1].fields[1].annotations = EmptyMap
           /\ parser[1].fields[1].definitions = EmptyMap
           /\ parser[1].fields[1].deforders = EmptyMap
           /\ parser[1].fields[1].finals = << >>
           /\ parser[1].fields[1].overloads = EmptyMap

FetchedUntilFresh == called.op = "fetch_until" /\ called.from = 0

RECURSIVE FirstTopLevel(_, _, _, _)
\* the index from i on of the first token of ts that matches condition outside
\* every bracket group opened since the scan began, 0 if there is none; stack
\* holds the closers of the groups open at i (a group ends at the first
\* occurrence of its closer that is not inside a group opened later)
FirstTopLevel(ts, i, stack, condition) ==
    IF i > Len(ts) \/ ts[i].kind = TOKENERROR THEN 0
    ELSE IF stack = << >> /\ Stops(condition, ts[i]) THEN i
    ELSE IF ts[i].value \in Openers
    THEN FirstTopLevel(ts, i + 1, <<CloserOf(ts[i].value)>> \o stack, condition)
    ELSE IF stack # << >> /\ ts[i].value = stack[1]
    THEN FirstTopLevel(ts, i + 1, Tail(stack), condition)
    ELSE FirstTopLevel(ts, i + 1, stack, condition)

\* C12: fetch_until(stop), stop a string, a collection of strings or a
\* predicate, returns with the cursor on the first token that matches stop
\* outside every bracket group opened during the scan: a match inside a
\* closed group does not end the scan, and nothing after the first top-level
\* match is consumed.
C12_StopsAtFirstTopLevelMatch ==
    (/\ FetchedUntilFresh
     /\ ConditionNamed(called.cond).type \in {"str", "list", "callable"}
     /\ FirstTopLevel(Tokenize(line), 1, << >>, ConditionNamed(called.cond)) > 0)
        => LET k == FirstTopLevel(Tokenize(line), 1, << >>, ConditionNamed(called.cond))
           IN  /\ ~raised
               /\ cur.pos = k
               /\ cur.current = Some(Tokenize(line)[k])

\* the scan passed a token matching stop inside a closed group and ended on a
\* later one outside it
C12_MatchInsideGroupPassed ==
    /\ FetchedUntilFresh
    /\ ~raised
    /\ \E j \in 1..Len(returned) : returned[j].value \in Openers
    /\ \E i \in 1..(cur.pos - 1) : Stops(ConditionNamed(called.cond), Tokenize(line)[i])
    /\ cur.current # None
    /\ Stops(ConditionNamed(called.cond), cur.current[1])

\* C13: when the scan of fetch_until passes a bracket group before it ends on
\* a top-level match, the returned list holds the group whole: the opening
\* bracket, the contents in order and the matching closing bracket, followed
\* by the tokens of the resumed outer scan; that is, every token before the
\* one the scan ended on.
C13_GroupReturnedWhole ==
    LET ts == Tokenize(line)
        k == FirstTopLevel(ts, 1, << >>, ConditionNamed(called.cond))
    IN  (/\ FetchedUntilFresh
         /\ ~raised
         /\ k > 0
         /\ \E i \in 1..(k - 1) : ts[i].value \in Openers)
            => returned = SubSeq(ts, 1, k - 1)

RECURSIVE OpenGroups(_, _, _)
\* the closers still awaited when ts has been read from i to its end
OpenGroups(ts, i, stack) ==
    IF i > Len(ts) \/ ts[i].kind = TOKENERROR THEN stack
    ELSE IF ts[i].value \in Openers
    THEN OpenGroups(ts, i + 1, <<CloserOf(ts[i].value)>> \o stack)
    ELSE IF stack # << >> /\ ts[i].value = stack[1]
    THEN OpenGroups(ts, i + 1, Tail(stack))
    ELSE OpenGroups(ts, i + 1, stack)

\* C14: when the input ends inside a bracket group that was never closed,
\* fetch_until raises nothing: it returns the tokens it has accumulated, from
\* the first token of the scan on, and leaves the cursor exhausted (current
\* is None).
C14_UnclosedGroupReturnsTokens ==
    LET ts == Tokenize(line)
    IN  (/\ FetchedUntilFresh
         /\ FirstTopLevel(ts, 1, << >>, ConditionNamed(called.cond)) = 0
         /\ OpenGroups(ts, 1, << >>) # << >>)
            => /\ ~raised
               /\ cur.current = None
               /\ returned # << >>
               /\ returned[1] = ts[1]

\* C15: token == other is true exactly when the token's text equals other, for
\* a string; when the token's kind equals other, for an integer kind tag; when
\* kind and text both equal the pair's, for a (kind, value) pair; and a token
\* of the same kind and text at any other position compares the same way.
C15_TokenEquality ==
    compared # None =>
        /\ compared[1].other.type = "str"
               => (compared[1].result <=> compared[1].self.value = compared[1].other.v)
        /\ compared[1].other.type = "int"
               => (compared[1].result <=> compared[1].self.kind = compared[1].other.v)
        /\ compared[1].other.type = "list"
               => (compared[1].result <=> (/\ compared[1].self.kind = compared[1].other.v[1]
                                           /\ compared[1].self.value = compared[1].other.v[2]))
        /\ compared[1].other.type \in {"str", "int", "list"}
               => /\ ~compared[1].exc
                  /\ \A t \in Tokens :
                         (t.kind = compared[1].self.kind /\ t.value = compared[1].self.value)
                             => Token_eq(t, compared[1].other) = compared[1].result

\* a token on the second line was compared with a pair of its kind and another
\* text
C15_PairKindOnlyMatch ==
    /\ compared # None
    /\ compared[1].other.type = "list"
    /\ compared[1].self.start[1] = 2
    /\ compared[1].self.kind = compared[1].other.v[1]
    /\ compared[1].self.value # compared[1].other.v[2]
    /\ ~compared[1].result

RECURSIVE PlainShape(_, _)
\* node is a plain name, an attribute of the name selfname, or a tuple/list of
\* such
PlainShape(node, selfname) ==
    CASE node.type = "Name" -> TRUE
      [] node.type = "Attribute" ->
            node.value[1].type = "Name" /\ <<node.value[1].id>> = selfname
      [] node.type \in {"Tuple", "List"} ->
            \A k \in 1..Len(node.elts) : PlainShape(node.elts[k], selfname)
      [] OTHER -> FALSE

RECURSIVE LeafNames(_)
\* the names a target of plain shape introduces, in order
LeafNames(node) ==
    IF node.type \in {"Tuple", "List"}
    THEN IF node.elts = << >> THEN << >>
         ELSE LeafNames(node.elts[1]) \o LeafNames([node EXCEPT !.elts = Tail(@)])
    ELSE <<node.id>>

\* the name of the first argument of a function, None if it has none
FirstArgName(args) == IF args = << >> THEN None ELSE Some(args[1].id)

RECURSIVE PlainNames(_, _)
\* the names introduced by the assignments of plain shape among stmts and the
\* statements nested in them; selfname is the first argument of the enclosing
\* function
PlainNames(stmts, selfname) ==
    IF stmts = << >> THEN {}
    ELSE LET st == stmts[1]
             own == IF st.type \in {"Assign", "AnnAssign"}
                    THEN UNION {{LeafNames(st.targets[k])[n] :
                                     n \in 1..Len(LeafNames(st.targets[k]))} :
                                 k \in {k \in 1..Len(st.targets) :
                                            PlainShape(st.targets[k], selfname)}}
                    ELSE {}
             inner == IF st.type = "FunctionDef"
                      THEN PlainNames(st.body, FirstArgName(st.args))
                      ELSE PlainNames(st.body \o st.handlers \o st.orelse, selfname)
         IN  own \cup inner \cup PlainNames(Tail(stmts), selfname)

C17_SelfAttributeNamed ==
    /\ (/\ lvars # None
        /\ lvars[1].node = Attribute(Name("self"), "y")
        /\ lvars[1].self = Some(Arg("self")))
           => (~lvars[1].exc /\ lvars[1].names = <<"y">>)
    /\ (/\ lvars # None
        /\ lvars[1].node = Attribute(Name("obj"), "y"))
           => lvars[1].exc
    /\ (Walked /\ Occurs(ClassC))
           => /\ <<"C.m", "y">> \in DOMAIN picker.comments
              /\ picker.comments[<<"C.m", "y">>] = "note"

\* the i-th statement is a simple assignment to a single plain name
SingleNameAssign(i) ==
    /\ i \in Positions
    /\ unit.body[i].type = "Assign"
    /\ unit.body[i].targets[1].type = "Name"

\* C18: after the walk, a string-literal expression statement that directly
\* follows a simple assignment to a single name is that name's comment when
\* the assignment has no inline `#:` comment; when it has one, the inline
\* comment is the stored value; and the text of a string literal that follows
\* no such assignment is stored under no key.
C18_DocstringFallback ==
    Walked =>
        \A i \in Positions :
            unit.body[i] = DocS =>
                IF SingleNameAssign(i - 1)
                THEN LET key == <<"", unit.body[i - 1].targets[1].id>>
                     IN  /\ key \in DOMAIN picker.comments
                         /\ picker.comments[key] =
                                IF unit.body[i - 1].doc = None THEN DocS.name
                                ELSE unit.body[i - 1].doc[1]
                ELSE \A key \in DOMAIN picker.comments :
                         picker.comments[key] = DocS.name
                             => \E k \in Positions :
                                    /\ unit.body[k] = DocS
                                    /\ SingleNameAssign(k - 1)
                                    /\ key = <<"", unit.body[k - 1].targets[1].id>>

RECURSIVE SignaturesOf(_, _)
\* the signatures (argument names) of the overload-marked declarations of
\* name among stmts, in declaration order
SignaturesOf(stmts, name) ==
    IF stmts = << >> THEN << >>
    ELSE (IF stmts[1].type = "FunctionDef" /\ stmts[1].overload /\ stmts[1].name = name
          THEN <<[k \in 1..Len(stmts[1].args) |-> stmts[1].args[k].id]>>
          ELSE << >>) \o SignaturesOf(Tail(stmts), name)

\* C19: after the walk, overloads holds under the qualified name of every
\* overload-marked function the signatures of its overload-marked
\* declarations, one per declaration, in declaration order.
C19_OverloadsInDeclarationOrder ==
    Walked =>
        \A i \in Positions :
            (unit.body[i].type = "FunctionDef" /\ unit.body[i].overload)
                => /\ unit.body[i].name \in DOMAIN picker.overloads
                   /\ picker.overloads[unit.body[i].name]
                          = SignaturesOf(unit.body, unit.body[i].name)

\* C20: when DefinitionFinder.parse() has ended, the indentation stack is
\* empty and every definition opened has been finalized once: class C, its
\* method C.m and function f each have one span in definitions, ending on the
\* last line of their block, whether a later statement's dedent or the end of
\* the input closed it.
C20_EveryDefinitionFinalized ==
    Located =>
        /\ finder.indents = << >>
        /\ \A i \in Positions :
               LET d == finder.definitions
                   end == LineOf(unit.body, i) + unit.body[i].last
               IN  /\ OccursOnceAt(ClassC, i)
                       => /\ "C" \in DOMAIN d /\ d["C"][3] = end
                          /\ "C.m" \in DOMAIN d /\ d["C.m"][3] = end
                   /\ OccursOnceAt(FuncF, i)
                       => ("f" \in DOMAIN d /\ d["f"][3] = end)

\* C21: for class C and its method m the two passes use one name: after
\* DefinitionFinder.parse() the spans are recorded under "C" and "C.m", after
\* the walk the order map has the keys "C" and "C.m" and the comment of
\* `self.y` in m is keyed by the scope "C.m", and the walker's qualified name
\* of m inside C is the path C, m.
C21_PassesAgreeOnNames ==
    Occurs(ClassC) =>
        /\ Located => {"C", "C.m"} \subseteq DOMAIN finder.definitions
        /\ Walked => /\ {"C", "C.m"} \subseteq DOMAIN picker.deforders
                     /\ <<"C.m", "y">> \in DOMAIN picker.comments
                     /\ get_qualname_for([picker EXCEPT !.context = <<"C">>], "m")
                            = Some(<<"C", "m">>)

C23_BufferedUntilClose ==
    [][/\ fcalled'.op = "write"
           => /\ fcalled'.exc = None
              /\ fs' = fs
              /\ faw'.io = Some((IF faw.io = None THEN << >> ELSE faw.io[1])
                                    \o fcalled'.data)
       /\ (fcalled'.op = "close" /\ faw.io # None)
           => /\ fs'[faw.path] = faw.io
              /\ fs[faw.path] = faw.io => (~fcalled'.wrote /\ fs' = fs)]_vars

\* C24: copyfile(source, dest) with an existing source and with dest absent
\* or force true returns normally and leaves dest with the content of source;
\* with the source absent it raises FileNotFoundError and changes no file;
\* with source and dest the same existing file it changes nothing.
C24_CopyfileCopies ==
    [][fcalled'.op = "copyfile"
           => LET source == fcalled'.source
                  dest == fcalled'.dest
              IN  /\ (/\ exists(fs, source)
                      /\ source # dest
                      /\ (~exists(fs, dest) \/ fcalled'.force))
                         => /\ fcalled'.exc = None
                            /\ fs'[dest] = fs[source]
                            /\ fs'[source] = fs[source]
                  /\ ~exists(fs, source)
                         => (fcalled'.exc = Some("FileNotFoundError") /\ fs' = fs)
                  /\ (exists(fs, source) /\ source = dest)
                         => (fcalled'.exc = None /\ fs' = fs)]_vars

\* the first line is `x = rhs` with rhs made of names and closed bracket
\* groups: the statement ends with its line
SimpleAssignment == IsAssignment(line) /\ WellNested(Rhs(line), << >>)

\* the last token consumed is the NEWLINE that ends the first line
OnFirstNewline ==
    /\ cur.current # None
    /\ cur.current[1].kind = NEWLINE
    /\ cur.current[1].start[1] = 1

\* C25: parse() on an assignment whose right-hand side is not followed by a
\* `#:` comment records no comment and stops on the NEWLINE token of the
\* assignment's line: nothing of the next line is consumed.
C25_StopsAtEndOfLine ==
    (/\ ParsedFresh
     /\ SimpleAssignment
     /\ line.comment # Some(DocComment))
        => /\ ~raised
           /\ comment = None
           /\ OnFirstNewline

\* C26: parse() ends without raising on every source, and leaves no comment
\* when the source has no `=` or `:` or when no `#:` comment follows the
\* right-hand side.
C26_ParseNeverRaises ==
    ParsedFresh =>
        /\ ~raised
        /\ ((\A i \in 1..Len(line.body) : line.body[i] \notin {<<"=">>, <<":">>})
                \/ line.comment # Some(DocComment))
               => comment = None

FetchedRvalueFresh == called.op = "fetch_rvalue" /\ called.from = 0

\* C28: when fetch_rvalue has passed a bracket group whose closing bracket is
\* directly followed by the `,` or `)` that ends the right-hand side, the
\* cursor is on that token (the group took nothing after its closer); and
\* the list returned holds tokens only, never None.
C28_GroupEndsAtCloser ==
    LET ts == Tokenize(line)
        k == FirstTopLevel(ts, 1, << >>, ConditionNamed("list , )"))
    IN  FetchedRvalueFresh =>
            /\ (k > 1 /\ ts[k - 1].value \in Closers) => (~raised /\ cur.pos = k)
            /\ \A j \in 1..Len(returned) : returned[j] # NoToken

\* C29: the comment parse() returns for an assignment whose statement ends
\* with its line is the `#:` comment of that line: the `#:` comment of the
\* later statement is never returned.
C29_CommentOfOwnStatement ==
    (ParsedFresh /\ SimpleAssignment /\ comment # None)
        => /\ line.comment = Some(DocComment)
           /\ comment = Some(DocText)


\* C27: in a build, once builder-inited has run, a document whose source-read
\* at time t0 was followed by its doctree-read at time t1 has
\* reading_durations[d] = t1 - t0, whatever events of other documents came
\* between; and a document the build has not read has no entry, so nothing
\* of an earlier build is left.
C27_DurationIsDifference ==
    \A d \in Docs :
        /\ phase[d].ev = "doctree-read"
               => duration_data[1].reading_durations[d]
                      = Some(phase[d].end - phase[d].start)
        /\ phase[d].ev = "none"
               => duration_data[1].reading_durations[d] = None

\* a document read from t0 to t1 > t0 while another document's source-read
\* came between
C27_ReadAcrossOtherDocument ==
    \E d \in Docs, e \in Docs :
        /\ d # e
        /\ phase[d].ev = "doctree-read"
        /\ phase[e].ev = "source-read"
        /\ phase[d].start < phase[e].start
        /\ phase[e].start < phase[d].end
        /\ duration_data[1].reading_durations[d] # Some(phase[d].start)


\* C30: dedent_docstring returns a result for every string and raises
\* nothing; for a string of one line the result is the string stripped.
C30_DedentNeverRaises ==
    dedented.done =>
        /\ dedented.exc = None
        /\ (\A i \in 1..Len(dedented.s) : dedented.s[i] \notin LineBreaks)
               => dedented.result = strip(expandtabs(dedented.s))

====
